---- MODULE Spec2Model ----
(***************************************************************************)
(* Alagad Depot: the donation API (lib/api), the scraper cache             *)
(* (lib/webScraper) and the recipient/donation matching engine.            *)
(*                                                                         *)
(* Time is counted in hours since local midnight of Aug 15, 2023 (the      *)
(* newest listing of the mock data); Date.now() is the variable now.       *)
(* A coordinate is a whole number of arc units; one unit of latitude is    *)
(* 1/HalfCircumference of a meridian half circle, i.e. one kilometre of    *)
(* arc for R = 6371, and longitudes are 0 or AntiMeridian (180 degrees),   *)
(* so that every point lies on one great circle and the haversine          *)
(* distance is a whole number of kilometres.  Scores are computed over     *)
(* the rationals; for the distances, radii and ages of the runs below      *)
(* double-precision arithmetic yields the same rounded awards.             *)
(* An optional field is <<>> when absent and <<v>> when present.           *)
(* call is the last call made to completion by a sequential caller;        *)
(* pending holds the calls of concurrent callers, each at its last await.  *)
(***************************************************************************)
EXTENDS Integers, Sequences, FiniteSets, TLC

VARIABLES now, storedUserId, userDonations, scrapedDataCache, call, pending,
          user, storedUser, users, error

\* The state of the accounts and of the session.
authState == <<user, storedUser, users, error>>

vars == <<now, storedUserId, userDonations, scrapedDataCache, call, pending,
          authState>>

(***************************************************************************)
(* Bounds of the model                                                     *)
(***************************************************************************)
MaxDonations == 2
MaxRecipients == 2
MaxTicks == 1
TickHours == 21
MaxLatSteps == 3
MaxRadiusSteps == 2
MaxDateSteps == 3
MaxAgeSteps == 5
MaxSubmissions == 2
MaxUsers == 1
AgeStepHours == 6

(***************************************************************************)
(* Program constants                                                       *)
(***************************************************************************)
HoursPerDay == 24
CategoryPoints == 30
UrgencyPoints == 25
ProximityPoints == 25
RecencyPoints == 20
RecencyDays == 7
DefaultMaxDistance == 50
CommunityRadius == 50
ScoreThreshold == 30
HalfCircumference == 20015
AntiMeridian == 180
OneDayInHours == 24
MatchedAfterHours == 12
UrgentAfterHours == 24
ArrangedAfterHours == 6
CompletedAfterDays == 7
LatStep == 25
DateStepHours == 84

Aug15_2023 == 0
Aug10_2023 == -120
Aug2_2023 == -312
Jul20_2023 == -624
Jun5_2023 == -1704
May15_2023 == -2208

None == <<>>
Some(v) == <<v>>

\* JavaScript truthiness of an optional number: undefined and 0 are falsy.
TruthyNumber(opt) == opt # None /\ opt[1] # 0

Abs(x) == IF x < 0 THEN -x ELSE x

\* Math.round of the rational num/den (den > 0): the nearest integer, a tie
\* going to the greater one.
MathRound(num, den) == (2 * num + den) \div (2 * den)

(***************************************************************************)
(* lib/webScraper: the mock campaigns and the cache                        *)
(***************************************************************************)
MockDonation(id, title, category, source, date, status) ==
    [id |-> id, title |-> title, category |-> category, source |-> source,
     date |-> date, status |-> status, latitude |-> None, longitude |-> None,
     userId |-> None]

mockFilipinoDonations ==
    << MockDonation("PH-DON-001", "Typhoon Relief for Bicol Region", "disaster",
                    "Philippine Red Cross", Aug15_2023, "active"),
       MockDonation("PH-DON-002", "School Supplies for Children in Mindanao",
                    "education", "DepEd Brigada Eskwela", Jun5_2023, "active"),
       MockDonation("PH-DON-003", "Medical Mission in Palawan", "healthcare",
                    "Philippine Medical Association", Jul20_2023, "urgent"),
       MockDonation("PH-DON-004", "Food Bank for Manila's Urban Poor",
                    "food", "Caritas Manila", Aug2_2023, "active"),
       MockDonation("PH-DON-005", "Rebuilding Homes in Marawi", "housing",
                    "Habitat for Humanity Philippines", May15_2023, "active"),
       MockDonation("PH-DON-006", "Emergency Response for Taal Volcano Evacuees",
                    "disaster", "DSWD", Aug10_2023, "urgent") >>

\* A faulty variant: an entry of exactly one day still counts as valid.
isCacheValidInclusive(cache, t) ==
    /\ cache # None
    /\ t - cache[1].timestamp <= OneDayInHours

isCacheValid(cache, t) ==
    /\ cache # None
    /\ t - cache[1].timestamp < OneDayInHours

scrapeRealDonations == mockFilipinoDonations

\* A faulty variant: the cache keeps the fresh listings less the last.
scrapeDonationsCachingFewer(cache, t) ==
    IF isCacheValid(cache, t)
    THEN [data |-> cache[1].data, cache |-> cache]
    ELSE [data |-> scrapeRealDonations,
          cache |-> Some([data |-> SubSeq(scrapeRealDonations, 1,
                                          Len(scrapeRealDonations) - 1),
                          timestamp |-> t])]

\* scrapeDonations: the data returned and the cache left behind.
scrapeDonations(cache, t) ==
    IF isCacheValid(cache, t)
    THEN [data |-> cache[1].data, cache |-> cache]
    ELSE [data |-> scrapeRealDonations,
          cache |-> Some([data |-> scrapeRealDonations, timestamp |-> t])]

\* A faulty variant: the first entry taken when no id matches.
FindByIdOrFirst(list, id) ==
    LET hits == {i \in 1..Len(list) : list[i].id = id}
    IN  IF hits = {} THEN (IF list = <<>> THEN None ELSE Some(list[1]))
        ELSE Some(list[CHOOSE i \in hits : \A j \in hits : i <= j])

\* Array.prototype.find((d) => d.id === id): the first hit, or nothing.
FindById(list, id) ==
    LET hits == {i \in 1..Len(list) : list[i].id = id}
    IN  IF hits = {} THEN None
        ELSE Some(list[CHOOSE i \in hits : \A j \in hits : i <= j])

scrapeDonationById(cache, t, id) ==
    LET cached == IF isCacheValid(cache, t) THEN FindById(cache[1].data, id) ELSE None
        fresh == scrapeDonations(cache, t)
    IN  IF cached # None
        THEN [donation |-> cached, cache |-> cache]
        ELSE [donation |-> FindById(fresh.data, id), cache |-> fresh.cache]

(***************************************************************************)
(* lib/api: reading the donations                                          *)
(***************************************************************************)
ExcludedTitles == {"School Supplies for Children", "Books"}

\* A faulty variant: the list returned without the event being dispatched.
fetchDonationsSilent(cache, t, stored) ==
    LET scraped == scrapeDonations(cache, t)
        keep(d) == ~(d.source = "User Donation" /\ d.title \in ExcludedTitles)
    IN  [data |-> SelectSeq(scraped.data, keep) \o stored,
         cache |-> scraped.cache,
         events |-> <<>>]

\* fetchDonations: the list returned, the cache left behind, and the events
\* dispatched on window.
fetchDonations(cache, t, stored) ==
    LET scraped == scrapeDonations(cache, t)
        keep(d) == ~(d.source = "User Donation" /\ d.title \in ExcludedTitles)
    IN  [data |-> SelectSeq(scraped.data, keep) \o stored,
         cache |-> scraped.cache,
         events |-> <<"donations-fetched">>]

fetchDonationById(cache, t, stored, id) ==
    LET scraped == scrapeDonationById(cache, t, id)
    IN  [donation |-> IF scraped.donation # None THEN scraped.donation
                      ELSE FindById(stored, id),
         cache |-> scraped.cache]

\* A faulty variant: the signed difference of the latitudes.
calculateDistanceSigned(lat1, lon1, lat2, lon2) ==
    IF lon1 = lon2 THEN lat2 - lat1
    ELSE HalfCircumference - Abs(lat1 + lat2)

\* calculateDistance for two points of the meridian great circle.
calculateDistance(lat1, lon1, lat2, lon2) ==
    IF lon1 = lon2 THEN Abs(lat2 - lat1)
    ELSE HalfCircumference - Abs(lat1 + lat2)

\* The filter of fetchDonationsByLocationScope over the fetched list.
filterByLocationScope(allDonations, locationScope, userLocation) ==
    LET near(d) ==
            IF /\ TruthyNumber(d.latitude) /\ TruthyNumber(d.longitude)
               /\ userLocation[1].latitude # 0 /\ userLocation[1].longitude # 0
            THEN calculateDistance(userLocation[1].latitude, userLocation[1].longitude,
                                   d.latitude[1], d.longitude[1]) <= CommunityRadius
            ELSE TRUE
    IN  IF locationScope = "community" /\ userLocation # None
        THEN SelectSeq(allDonations, near)
        ELSE allDonations

fetchDonationsByLocationScope(cache, t, stored, locationScope, userLocation) ==
    LET all == fetchDonations(cache, t, stored)
    IN  [all EXCEPT !.data = filterByLocationScope(all.data, locationScope, userLocation)]

(***************************************************************************)
(* lib/api: the matching engine                                            *)
(***************************************************************************)
Includes(list, x) == \E i \in 1..Len(list) : list[i] = x

NoMatch == [score |-> 0, matchReasons |-> <<>>]

\* A faulty variant: the category test inverted.
CategoryRuleInverted(acc, categories, donation) ==
    IF ~Includes(categories, donation.category)
    THEN [score |-> acc.score + CategoryPoints,
          matchReasons |-> Append(acc.matchReasons,
                                  "Category match: " \o donation.category)]
    ELSE acc

\* Category match (30 points)
CategoryRule(acc, categories, donation) ==
    IF Includes(categories, donation.category)
    THEN [score |-> acc.score + CategoryPoints,
          matchReasons |-> Append(acc.matchReasons,
                                  "Category match: " \o donation.category)]
    ELSE acc

\* A faulty variant: any stated urgency counts as high.
UrgencyRuleAnyUrgency(acc, urgency, donation) ==
    IF urgency # None /\ donation.status = "urgent"
    THEN [score |-> acc.score + UrgencyPoints,
          matchReasons |-> Append(acc.matchReasons,
                                  "Urgent donation matches high urgency need")]
    ELSE acc

\* Status match (25 points)
UrgencyRule(acc, urgency, donation) ==
    IF urgency = Some("high") /\ donation.status = "urgent"
    THEN [score |-> acc.score + UrgencyPoints,
          matchReasons |-> Append(acc.matchReasons,
                                  "Urgent donation matches high urgency need")]
    ELSE acc

\* const maxDistance = recipientNeeds.maxDistance || 50
EffectiveMaxDistance(maxDistance) ==
    IF TruthyNumber(maxDistance) THEN maxDistance[1] ELSE DefaultMaxDistance

\* A faulty variant: the award truncated instead of rounded.
DistanceScoreTruncated(distance, maxDistance) ==
    (ProximityPoints * (maxDistance - distance)) \div maxDistance

\* Math.round(25 * (1 - distance / maxDistance))
DistanceScore(distance, maxDistance) ==
    MathRound(ProximityPoints * (maxDistance - distance), maxDistance)

\* if (recipientNeeds.location && donation.latitude && donation.longitude)
ProximityApplies(location, donation) ==
    /\ location # None
    /\ TruthyNumber(donation.latitude)
    /\ TruthyNumber(donation.longitude)

\* A faulty variant: the reason put in front of the list instead of behind.
LocationRuleUnshift(acc, location, maxDistanceOpt, donation) ==
    IF ProximityApplies(location, donation)
    THEN LET distance == calculateDistance(location[1].latitude, location[1].longitude,
                                           donation.latitude[1], donation.longitude[1])
             maxDistance == EffectiveMaxDistance(maxDistanceOpt)
         IN  IF distance <= maxDistance
             THEN [score |-> acc.score + DistanceScore(distance, maxDistance),
                   matchReasons |->
                       <<"Location proximity: "
                             \o ToString(MathRound(distance, 1)) \o "km away">>
                           \o acc.matchReasons]
             ELSE acc
    ELSE acc

\* A faulty variant: the rule skipped when no maxDistance is supplied.
LocationRuleNeedsRadius(acc, location, maxDistanceOpt, donation) ==
    IF ProximityApplies(location, donation) /\ maxDistanceOpt # None
    THEN LET distance == calculateDistance(location[1].latitude, location[1].longitude,
                                           donation.latitude[1], donation.longitude[1])
             maxDistance == EffectiveMaxDistance(maxDistanceOpt)
         IN  IF distance <= maxDistance
             THEN [score |-> acc.score + DistanceScore(distance, maxDistance),
                   matchReasons |->
                       Append(acc.matchReasons,
                              "Location proximity: "
                                  \o ToString(MathRound(distance, 1)) \o "km away")]
             ELSE acc
    ELSE acc

\* Location proximity (up to 25 points)
LocationRule(acc, location, maxDistanceOpt, donation) ==
    IF ProximityApplies(location, donation)
    THEN LET distance == calculateDistance(location[1].latitude, location[1].longitude,
                                           donation.latitude[1], donation.longitude[1])
             maxDistance == EffectiveMaxDistance(maxDistanceOpt)
         IN  IF distance <= maxDistance
             THEN [score |-> acc.score + DistanceScore(distance, maxDistance),
                   matchReasons |->
                       Append(acc.matchReasons,
                              "Location proximity: "
                                  \o ToString(MathRound(distance, 1)) \o "km away")]
             ELSE acc
    ELSE acc

\* A faulty variant: the award truncated instead of rounded.
FreshnessScoreTruncated(hoursSince) ==
    (RecencyPoints * (RecencyDays * HoursPerDay - hoursSince))
        \div (RecencyDays * HoursPerDay)

\* Math.round(20 * (1 - daysSinceDonation / 7)), the age given in hours
FreshnessScore(hoursSince) ==
    MathRound(RecencyPoints * (RecencyDays * HoursPerDay - hoursSince),
              RecencyDays * HoursPerDay)

\* Recent donation bonus (up to 20 points)
RecencyRule(acc, t, donation) ==
    LET hoursSince == t - donation.date
    IN  IF hoursSince <= RecencyDays * HoursPerDay
        THEN [score |-> acc.score + FreshnessScore(hoursSince),
              matchReasons |-> Append(acc.matchReasons, "Recently listed donation")]
        ELSE acc

\* A faulty variant: the score clamped to the documented 0-100 range.
ScoreDonationClamped(needs, donation, t) ==
    LET a1 == CategoryRule(NoMatch, needs.categories, donation)
        a2 == UrgencyRule(a1, needs.urgency, donation)
        a3 == LocationRule(a2, needs.location, needs.maxDistance, donation)
        a4 == RecencyRule(a3, t, donation)
    IN  [match |-> [donationId |-> donation.id, recipientId |-> needs.userId,
                    score |-> IF a4.score > 100 THEN 100 ELSE a4.score,
                    matchReason |-> a4.matchReasons],
         steps |-> <<a1.score, a2.score, a3.score, a4.score>>]

\* The callback of availableDonations.map: the match of one donation, and
\* the value of score after each of the four rules.
ScoreDonation(needs, donation, t) ==
    LET a1 == CategoryRule(NoMatch, needs.categories, donation)
        a2 == UrgencyRule(a1, needs.urgency, donation)
        a3 == LocationRule(a2, needs.location, needs.maxDistance, donation)
        a4 == RecencyRule(a3, t, donation)
    IN  [match |-> [donationId |-> donation.id, recipientId |-> needs.userId,
                    score |-> a4.score, matchReason |-> a4.matchReasons],
         steps |-> <<a1.score, a2.score, a3.score, a4.score>>]

\* A faulty variant: the recency bonus of the forward direction copied in.
ScoreRecipientWithRecency(recipient, donation) ==
    LET a1 == CategoryRule(NoMatch, recipient.categories, donation)
        a2 == UrgencyRule(a1, recipient.urgency, donation)
        a3 == RecencyRule(LocationRule(a2, recipient.location, recipient.maxDistance,
                                       donation),
                          now, donation)
    IN  [match |-> [donationId |-> donation.id, recipientId |-> recipient.userId,
                    score |-> a3.score, matchReason |-> a3.matchReasons],
         steps |-> <<a1.score, a2.score, a3.score>>]

\* The callback of userPreferences.map: three rules, no recency.
ScoreRecipient(recipient, donation) ==
    LET a1 == CategoryRule(NoMatch, recipient.categories, donation)
        a2 == UrgencyRule(a1, recipient.urgency, donation)
        a3 == LocationRule(a2, recipient.location, recipient.maxDistance, donation)
    IN  [match |-> [donationId |-> donation.id, recipientId |-> recipient.userId,
                    score |-> a3.score, matchReason |-> a3.matchReasons],
         steps |-> <<a1.score, a2.score, a3.score>>]

\* A faulty variant: the threshold taken as inclusive.
AboveThresholdInclusive(match) == match.score >= ScoreThreshold

\* .filter((match) => match.score > 30)
AboveThreshold(match) == match.score > ScoreThreshold

\* Array.prototype.sort with (a, b) => b.score - a.score: a stable sort, an
\* element stays behind every earlier element it does not beat.
\* A faulty variant: the comparator of an ascending sort.
CompareByScoreAscending(a, b) == a.score - b.score

CompareByScore(a, b) == b.score - a.score

RECURSIVE InsertByScore(_, _)
InsertByScore(sorted, m) ==
    IF sorted = <<>> THEN <<m>>
    ELSE IF CompareByScore(Head(sorted), m) > 0
         THEN <<m>> \o sorted
         ELSE <<Head(sorted)>> \o InsertByScore(Tail(sorted), m)

RECURSIVE SortByScore(_)
SortByScore(list) ==
    IF list = <<>> THEN <<>>
    ELSE InsertByScore(SortByScore(SubSeq(list, 1, Len(list) - 1)), list[Len(list)])

RankMatches(scored) ==
    SortByScore(SelectSeq([i \in 1..Len(scored) |-> scored[i].match], AboveThreshold))

(***************************************************************************)
(* Operations                                                              *)
(***************************************************************************)
Now0 == RecencyDays * HoursPerDay

\* Two callers whose calls may overlap.
Callers == {"first", "second"}

\* The accounts of AuthContext.login that need no registration.
Account(id, name, email, role, password) ==
    [id |-> id, name |-> name, email |-> email, role |-> role,
     password |-> password]

mockUsers ==
    [email \in {"donor@example.com", "charity@example.com",
                "recipient@example.com"} |->
        CASE email = "donor@example.com" ->
                 Account("user-1", "John Donor", email, "donor", "password123")
          [] email = "charity@example.com" ->
                 Account("user-2", "Hope Community Center", email, "charity",
                         "password123")
          [] email = "recipient@example.com" ->
                 Account("user-3", "Sam Recipient", email, "recipient",
                         "password123")]

Init ==
    /\ now = Now0
    /\ storedUserId = Some("user-1")
    /\ userDonations = <<>>
    /\ scrapedDataCache = None
    /\ call = [op |-> "none"]
    /\ pending = [i \in Callers |-> [pc |-> "idle"]]
    /\ user = Some(mockUsers["donor@example.com"])
    /\ storedUser = Some(mockUsers["donor@example.com"])
    /\ users = <<>>
    /\ error = None

Idle == call.op = "none"

\* The clock advances between two calls.
Tick ==
    /\ Idle
    /\ now + TickHours <= Now0 + MaxTicks * TickHours
    /\ now' = now + TickHours
    /\ UNCHANGED <<storedUserId, authState, userDonations, scrapedDataCache, call, pending>>

submitDonation(donationData) ==
    LET data == IF donationData.userId = None /\ storedUserId # None
                THEN [donationData EXCEPT !.userId = storedUserId]
                ELSE donationData
    IN  /\ Idle
        /\ userDonations' = IF data.userId # None
                            THEN Append(userDonations, data)
                            ELSE userDonations
        /\ call' = [op |-> "submitDonation",
                    at |-> now,
                    events |-> <<"new-donation">>,
                    result |-> [id |-> IF data.id # "" THEN data.id
                                       ELSE "DON-" \o ToString(now)]]
        /\ UNCHANGED <<now, storedUserId, authState, scrapedDataCache, pending>>

\* A faulty variant: the score written onto each candidate record, which for
\* a scraped listing is the record held by the cache.
findMatchesForRecipientStamping(recipientNeeds) ==
    LET fetched == fetchDonationsByLocationScope(scrapedDataCache, now, userDonations,
                                                 recipientNeeds.locationScope,
                                                 recipientNeeds.location)
        availableDonations == fetched.data
        scored == [i \in 1..Len(availableDonations) |->
                      ScoreDonation(recipientNeeds, availableDonations[i], now)]
        Stamped(d) ==
            LET hits == {i \in 1..Len(availableDonations) : availableDonations[i] = d}
            IN  IF hits = {} THEN d
                ELSE [score |-> scored[CHOOSE i \in hits : TRUE].match.score] @@ d
    IN  /\ Idle
        /\ call' = [op |-> "findMatchesForRecipient",
                    at |-> now,
                    events |-> fetched.events,
                    needs |-> <<recipientNeeds>>,
                    donations |-> availableDonations,
                    steps |-> [i \in 1..Len(scored) |-> scored[i].steps],
                    scored |-> [i \in 1..Len(scored) |-> scored[i].match],
                    result |-> RankMatches(scored)]
        /\ scrapedDataCache' =
               Some([fetched.cache[1] EXCEPT
                        !.data = [i \in 1..Len(fetched.cache[1].data) |->
                                     Stamped(fetched.cache[1].data[i])]])
        /\ UNCHANGED <<now, storedUserId, authState, userDonations, pending>>

findMatchesForRecipient(recipientNeeds) ==
    LET fetched == fetchDonationsByLocationScope(scrapedDataCache, now, userDonations,
                                                 recipientNeeds.locationScope,
                                                 recipientNeeds.location)
        availableDonations == fetched.data
        scored == [i \in 1..Len(availableDonations) |->
                      ScoreDonation(recipientNeeds, availableDonations[i], now)]
    IN  /\ Idle
        /\ call' = [op |-> "findMatchesForRecipient",
                    at |-> now,
                    events |-> fetched.events,
                    needs |-> <<recipientNeeds>>,
                    donations |-> availableDonations,
                    steps |-> [i \in 1..Len(scored) |-> scored[i].steps],
                    scored |-> [i \in 1..Len(scored) |-> scored[i].match],
                    result |-> RankMatches(scored)]
        /\ scrapedDataCache' = fetched.cache
        /\ UNCHANGED <<now, storedUserId, authState, userDonations, pending>>

findRecipientsForDonation(donationId, userPreferences) ==
    LET fetched == fetchDonationById(scrapedDataCache, now, userDonations, donationId)
        donation == fetched.donation
        scored == IF donation = None THEN <<>>
                  ELSE [i \in 1..Len(userPreferences) |->
                           ScoreRecipient(userPreferences[i], donation[1])]
    IN  /\ Idle
        /\ call' = [op |-> "findRecipientsForDonation",
                    at |-> now,
                    donationId |-> donationId,
                    events |-> <<>>,
                    needs |-> userPreferences,
                    donations |-> donation,
                    steps |-> [i \in 1..Len(scored) |-> scored[i].steps],
                    scored |-> [i \in 1..Len(scored) |-> scored[i].match],
                    result |-> RankMatches(scored)]
        /\ scrapedDataCache' = fetched.cache
        /\ UNCHANGED <<now, storedUserId, authState, userDonations, pending>>

\* The promise of the call settles and the caller takes its value.
Return ==
    /\ ~Idle
    /\ call' = [op |-> "none"]
    /\ UNCHANGED <<now, storedUserId, authState, userDonations, scrapedDataCache, pending>>

(***************************************************************************)
(* DonationTracker: the status timeline of one donation. An event is its   *)
(* id, status, title and timestamp; the description and user texts are     *)
(* left out.                                                               *)
(***************************************************************************)
\* Date.prototype.toLocaleDateString: the calendar day of an instant, here
\* the hour at which that day begins.
toLocaleDateString(t) == (t \div HoursPerDay) * HoursPerDay

StatusItemOf(id, status, title, timestamp) ==
    [id |-> id, status |-> status, title |-> title, timestamp |-> timestamp]

\* A faulty variant: the matched stage shown only strictly after 12 hours.
generateStatusTimelineStrict(donation, t) ==
    LET baseDate == donation.date
        matchedDate == baseDate + MatchedAfterHours
        urgentDate == baseDate + UrgentAfterHours
        arrangedDate == urgentDate + ArrangedAfterHours
        completedDate == baseDate + CompletedAfterDays * HoursPerDay
    IN  <<StatusItemOf("1", "active", "Donation Listed", donation.date)>>
        \o (IF matchedDate < t \/ donation.status = "urgent"
                \/ donation.status = "completed"
            THEN <<StatusItemOf("2", "matched", "Potential Recipients Found",
                                toLocaleDateString(matchedDate))>>
            ELSE <<>>)
        \o (IF donation.status = "urgent"
            THEN <<StatusItemOf("3", "urgent", "Urgent Need Identified",
                                toLocaleDateString(urgentDate))>>
                 \o (IF arrangedDate <= t \/ donation.status = "completed"
                     THEN <<StatusItemOf("4", "arranged", "Pickup/Delivery Arranged",
                                         toLocaleDateString(arrangedDate))>>
                     ELSE <<>>)
            ELSE <<>>)
        \o (IF donation.status = "completed"
            THEN <<StatusItemOf("5", "completed", "Donation Completed",
                                toLocaleDateString(completedDate))>>
            ELSE <<>>)

\* A faulty variant: the arranged stage tested against the urgent date.
generateStatusTimelineEarlyArranged(donation, t) ==
    LET baseDate == donation.date
        matchedDate == baseDate + MatchedAfterHours
        urgentDate == baseDate + UrgentAfterHours
        arrangedDate == urgentDate + ArrangedAfterHours
        completedDate == baseDate + CompletedAfterDays * HoursPerDay
    IN  <<StatusItemOf("1", "active", "Donation Listed", donation.date)>>
        \o (IF matchedDate <= t \/ donation.status = "urgent"
                \/ donation.status = "completed"
            THEN <<StatusItemOf("2", "matched", "Potential Recipients Found",
                                toLocaleDateString(matchedDate))>>
            ELSE <<>>)
        \o (IF donation.status = "urgent"
            THEN <<StatusItemOf("3", "urgent", "Urgent Need Identified",
                                toLocaleDateString(urgentDate))>>
                 \o (IF urgentDate <= t \/ donation.status = "completed"
                     THEN <<StatusItemOf("4", "arranged", "Pickup/Delivery Arranged",
                                         toLocaleDateString(arrangedDate))>>
                     ELSE <<>>)
            ELSE <<>>)
        \o (IF donation.status = "completed"
            THEN <<StatusItemOf("5", "completed", "Donation Completed",
                                toLocaleDateString(completedDate))>>
            ELSE <<>>)

\* A faulty variant: the urgent block run before the matched block.
generateStatusTimelineUrgentFirst(donation, t) ==
    LET baseDate == donation.date
        matchedDate == baseDate + MatchedAfterHours
        urgentDate == baseDate + UrgentAfterHours
        arrangedDate == urgentDate + ArrangedAfterHours
        completedDate == baseDate + CompletedAfterDays * HoursPerDay
    IN  <<StatusItemOf("1", "active", "Donation Listed", donation.date)>>
        \o (IF donation.status = "urgent"
            THEN <<StatusItemOf("3", "urgent", "Urgent Need Identified",
                                toLocaleDateString(urgentDate))>>
                 \o (IF arrangedDate <= t \/ donation.status = "completed"
                     THEN <<StatusItemOf("4", "arranged", "Pickup/Delivery Arranged",
                                         toLocaleDateString(arrangedDate))>>
                     ELSE <<>>)
            ELSE <<>>)
        \o (IF matchedDate <= t \/ donation.status = "urgent"
                \/ donation.status = "completed"
            THEN <<StatusItemOf("2", "matched", "Potential Recipients Found",
                                toLocaleDateString(matchedDate))>>
            ELSE <<>>)
        \o (IF donation.status = "completed"
            THEN <<StatusItemOf("5", "completed", "Donation Completed",
                                toLocaleDateString(completedDate))>>
            ELSE <<>>)

\* A faulty variant: the completed stage shown only once its date has come.
generateStatusTimelineCompletedWhenDue(donation, t) ==
    LET baseDate == donation.date
        matchedDate == baseDate + MatchedAfterHours
        urgentDate == baseDate + UrgentAfterHours
        arrangedDate == urgentDate + ArrangedAfterHours
        completedDate == baseDate + CompletedAfterDays * HoursPerDay
    IN  <<StatusItemOf("1", "active", "Donation Listed", donation.date)>>
        \o (IF matchedDate <= t \/ donation.status = "urgent"
                \/ donation.status = "completed"
            THEN <<StatusItemOf("2", "matched", "Potential Recipients Found",
                                toLocaleDateString(matchedDate))>>
            ELSE <<>>)
        \o (IF donation.status = "urgent"
            THEN <<StatusItemOf("3", "urgent", "Urgent Need Identified",
                                toLocaleDateString(urgentDate))>>
                 \o (IF arrangedDate <= t \/ donation.status = "completed"
                     THEN <<StatusItemOf("4", "arranged", "Pickup/Delivery Arranged",
                                         toLocaleDateString(arrangedDate))>>
                     ELSE <<>>)
            ELSE <<>>)
        \o (IF donation.status = "completed" /\ completedDate <= t
            THEN <<StatusItemOf("5", "completed", "Donation Completed",
                                toLocaleDateString(completedDate))>>
            ELSE <<>>)

\* A faulty variant: the matched event stamped with the day of the clock.
generateStatusTimelineStampedNow(donation, t) ==
    LET baseDate == donation.date
        matchedDate == baseDate + MatchedAfterHours
        urgentDate == baseDate + UrgentAfterHours
        arrangedDate == urgentDate + ArrangedAfterHours
        completedDate == baseDate + CompletedAfterDays * HoursPerDay
    IN  <<StatusItemOf("1", "active", "Donation Listed", donation.date)>>
        \o (IF matchedDate <= t \/ donation.status = "urgent"
                \/ donation.status = "completed"
            THEN <<StatusItemOf("2", "matched", "Potential Recipients Found",
                                toLocaleDateString(t))>>
            ELSE <<>>)
        \o (IF donation.status = "urgent"
            THEN <<StatusItemOf("3", "urgent", "Urgent Need Identified",
                                toLocaleDateString(urgentDate))>>
                 \o (IF arrangedDate <= t \/ donation.status = "completed"
                     THEN <<StatusItemOf("4", "arranged", "Pickup/Delivery Arranged",
                                         toLocaleDateString(arrangedDate))>>
                     ELSE <<>>)
            ELSE <<>>)
        \o (IF donation.status = "completed"
            THEN <<StatusItemOf("5", "completed", "Donation Completed",
                                toLocaleDateString(completedDate))>>
            ELSE <<>>)

generateStatusTimeline(donation, t) ==
    LET baseDate == donation.date
        matchedDate == baseDate + MatchedAfterHours
        urgentDate == baseDate + UrgentAfterHours
        arrangedDate == urgentDate + ArrangedAfterHours
        completedDate == baseDate + CompletedAfterDays * HoursPerDay
    IN  <<StatusItemOf("1", "active", "Donation Listed", donation.date)>>
        \o (IF matchedDate <= t \/ donation.status = "urgent"
                \/ donation.status = "completed"
            THEN <<StatusItemOf("2", "matched", "Potential Recipients Found",
                                toLocaleDateString(matchedDate))>>
            ELSE <<>>)
        \o (IF donation.status = "urgent"
            THEN <<StatusItemOf("3", "urgent", "Urgent Need Identified",
                                toLocaleDateString(urgentDate))>>
                 \o (IF arrangedDate <= t \/ donation.status = "completed"
                     THEN <<StatusItemOf("4", "arranged", "Pickup/Delivery Arranged",
                                         toLocaleDateString(arrangedDate))>>
                     ELSE <<>>)
            ELSE <<>>)
        \o (IF donation.status = "completed"
            THEN <<StatusItemOf("5", "completed", "Donation Completed",
                                toLocaleDateString(completedDate))>>
            ELSE <<>>)

\* The tracker loads the donation of its id and renders it: the timeline
\* when the donation is found, an error message otherwise.
loadDonation(id) ==
    LET fetched == fetchDonationById(scrapedDataCache, now, userDonations, id)
    IN  /\ Idle
        /\ call' = [op |-> "DonationTracker",
                    at |-> now,
                    events |-> <<>>,
                    donationId |-> id,
                    donation |-> fetched.donation,
                    error |-> IF fetched.donation = None
                              THEN Some("Donation not found. It may have been removed.")
                              ELSE None,
                    timeline |-> IF fetched.donation = None THEN <<>>
                                 ELSE generateStatusTimeline(fetched.donation[1], now)]
        /\ scrapedDataCache' = fetched.cache
        /\ UNCHANGED <<now, storedUserId, authState, userDonations, pending>>

updateUserDonationStatus(donationId, userId, newStatus) ==
    LET hits == {i \in 1..Len(userDonations) :
                    /\ userDonations[i].id = donationId
                    /\ userDonations[i].userId = Some(userId)}
        donationIndex == CHOOSE i \in hits : \A j \in hits : i <= j
    IN  /\ Idle
        /\ IF hits = {}
           THEN /\ call' = [op |-> "updateUserDonationStatus", at |-> now,
                            events |-> <<>>, donationId |-> donationId,
                            userId |-> userId, newStatus |-> newStatus,
                            result |-> FALSE]
                /\ UNCHANGED userDonations
           ELSE /\ userDonations' =
                       [userDonations EXCEPT ![donationIndex].status = newStatus]
                /\ call' = [op |-> "updateUserDonationStatus", at |-> now,
                            events |-> <<"donation-update">>,
                            donationId |-> donationId,
                            userId |-> userId, newStatus |-> newStatus,
                            result |-> TRUE]
        /\ UNCHANGED <<now, storedUserId, authState, scrapedDataCache, pending>>

(***************************************************************************)
(* useDonationStatus: the progress bar of the four-stage tracker           *)
(***************************************************************************)
stages == <<"listed", "matched", "arranged", "completed">>

\* Array.prototype.indexOf, counted from 0; -1 when x is not in the list.
IndexOf(list, x) ==
    LET hits == {i \in 1..Len(list) : list[i] = x}
    IN  IF hits = {} THEN -1
        ELSE (CHOOSE i \in hits : \A j \in hits : i <= j) - 1

\* A faulty variant: the index taken without the + 1.
getProgressPercentageFromZero(currentStatus) ==
    LET currentIndex == IndexOf(stages, currentStatus)
    IN  (currentIndex * 100) \div Len(stages)

\* ((currentIndex + 1) / stages.length) * 100, a whole number for every index
getProgressPercentage(currentStatus) ==
    LET currentIndex == IndexOf(stages, currentStatus)
    IN  ((currentIndex + 1) * 100) \div Len(stages)

\* DonationTracker renders with the stage it is given.
useDonationStatus(currentStatus) ==
    /\ Idle
    /\ call' = [op |-> "useDonationStatus",
                at |-> now,
                events |-> <<>>,
                currentStatus |-> currentStatus,
                progressPercentage |-> getProgressPercentage(currentStatus)]
    /\ UNCHANGED <<now, storedUserId, authState, userDonations, scrapedDataCache, pending>>

DonationStatusType == {"listed", "matched", "arranged", "completed"}

(***************************************************************************)
(* Inputs                                                                  *)
(***************************************************************************)
UserDonation(id, category, status, date, latitude, longitude) ==
    [id |-> id, title |-> "Relief goods", category |-> category,
     source |-> "User Donation", date |-> date, status |-> status,
     latitude |-> latitude, longitude |-> longitude, userId |-> None]

Needs(userId, categories, urgency, location, maxDistance, locationScope) ==
    [userId |-> userId, categories |-> categories, urgency |-> urgency,
     location |-> location, maxDistance |-> maxDistance,
     locationScope |-> locationScope]

Point(latitude, longitude) == [latitude |-> latitude, longitude |-> longitude]

Categories == {"food", "disaster"}
Statuses == {"active", "urgent"}
Dates == {k * DateStepHours : k \in 0..MaxDateSteps}
Latitudes == {k * LatStep : k \in 0..MaxLatSteps}
Longitudes == {0, AntiMeridian}
Coordinates == {<<None, None>>}
                   \cup {<<Some(la), Some(lo)>> : la \in Latitudes, lo \in Longitudes}
Radii == {None} \cup {Some(k * LatStep) : k \in 0..MaxRadiusSteps}
Urgencies == {None, Some("high"), Some("medium"), Some("low")}
Locations == {None, Some(Point(0, 0)), Some(Point(LatStep, AntiMeridian))}

\* The listings and recipients of the ranking runs: no coordinates.
RankDonations ==
    {UserDonation("USER-DON-1", c, s, Now0, None, None) :
        c \in Categories, s \in Statuses}
RankNeeds(userId) ==
    {Needs(userId, cs, u, None, None, "worldwide") :
        cs \in {<<"food">>, <<"disaster", "healthcare">>},
        u \in {None, Some("high")}}
RECURSIVE RankPreferences(_)
RankPreferences(n) ==
    IF n = 0 THEN {<<>>}
    ELSE {Append(ps, r) : ps \in RankPreferences(n - 1),
                          r \in RankNeeds("recipient-" \o ToString(n))}
DonationIds == {"PH-DON-006", "USER-DON-1", "nonexistent-id"}

Next ==
    \/ Tick
    \/ Return
    \/ /\ Len(userDonations) < MaxDonations
       /\ \E d \in RankDonations : submitDonation(d)
    \/ \E n \in RankNeeds("recipient-1") : findMatchesForRecipient(n)
    \/ \E id \in DonationIds, k \in 0..MaxRecipients :
          \E ps \in RankPreferences(k) : findRecipientsForDonation(id, ps)
    \/ \E id \in DonationIds : loadDonation(id)

Spec == Init /\ [][Next]_vars

\* The listings and recipients of the scoring runs: one stored listing, one
\* recipient, every combination of the fields the four rules read.
ScoreDonations ==
    {UserDonation("USER-DON-1", c, s, d, co[1], co[2]) :
        c \in Categories, s \in Statuses, d \in Dates, co \in Coordinates}
ScoreNeeds ==
    {Needs("recipient-1", <<"food">>, u, None, None, "worldwide") : u \in Urgencies}
        \cup {Needs("recipient-1", <<"food">>, u, l, r, sc) :
                  u \in {None, Some("high")}, l \in Locations \ {None},
                  r \in Radii, sc \in {"community", "worldwide"}}
ScorePreferences == {n \in ScoreNeeds : n.locationScope = "worldwide"}

NextScore ==
    \/ Tick
    \/ Return
    \/ /\ userDonations = <<>>
       /\ now = Now0
       /\ \E d \in ScoreDonations : submitDonation(d)
    \/ \E n \in ScoreNeeds : findMatchesForRecipient(n)
    \/ \E n \in ScorePreferences : findRecipientsForDonation("USER-DON-1", <<n>>)

SpecScore == Init /\ [][NextScore]_vars

\* A stored date is a day (toLocaleDateString of the moment of submission),
\* here yesterday or today at the start of the runs; the clock of
\* the tracker runs advances in steps of AgeStepHours.
TimelineDates == {Now0 - HoursPerDay, Now0}

Elapse ==
    /\ Idle
    /\ now + AgeStepHours <= Now0 + MaxAgeSteps * AgeStepHours
    /\ now' = now + AgeStepHours
    /\ UNCHANGED <<storedUserId, authState, userDonations, scrapedDataCache, call, pending>>
TimelineDonations ==
    {UserDonation("USER-DON-1", "food", s, d, None, None) :
        s \in Statuses, d \in TimelineDates}
UserIds == {"user-1", "user-2"}

NextTimeline ==
    \/ Elapse
    \/ Return
    \/ /\ userDonations = <<>>
       /\ \E d \in TimelineDonations : submitDonation(d)
    \/ \E id \in DonationIds, u \in UserIds, s \in Statuses \cup {"completed"} :
          updateUserDonationStatus(id, u, s)
    \/ \E id \in DonationIds : loadDonation(id)
    \/ \E s \in DonationStatusType : useDonationStatus(s)

SpecTimeline == Init /\ [][NextTimeline]_vars

(***************************************************************************)
(* Overlapping calls: each matching call is cut at its awaits. A caller    *)
(* goes idle -> (scraping ->) scraped | found -> fetched -> done -> idle.  *)
(***************************************************************************)
InFlight(c, pc, op, needs, donationId, data) ==
    [pending EXCEPT ![c] = [pc |-> pc, op |-> op, needs |-> needs,
                            donationId |-> donationId, data |-> data,
                            at |-> now, events |-> <<>>, result |-> <<>>]]

\* findMatchesForRecipient up to the first await that suspends: the cache
\* test of scrapeDonations.
beginFindMatchesForRecipient(c, recipientNeeds) ==
    /\ Idle
    /\ pending[c].pc = "idle"
    /\ pending' = IF isCacheValid(scrapedDataCache, now)
                  THEN InFlight(c, "scraped", "findMatchesForRecipient",
                                <<recipientNeeds>>, "", scrapedDataCache[1].data)
                  ELSE InFlight(c, "scraping", "findMatchesForRecipient",
                                <<recipientNeeds>>, "", <<>>)
    /\ UNCHANGED <<now, storedUserId, authState, userDonations, scrapedDataCache, call>>

\* findRecipientsForDonation up to the first await that suspends: the cache
\* lookup of scrapeDonationById, then the cache test of scrapeDonations.
beginFindRecipientsForDonation(c, donationId, userPreferences) ==
    LET cached == IF isCacheValid(scrapedDataCache, now)
                  THEN FindById(scrapedDataCache[1].data, donationId)
                  ELSE None
    IN  /\ Idle
        /\ pending[c].pc = "idle"
        /\ pending' = IF cached # None
                      THEN InFlight(c, "found", "findRecipientsForDonation",
                                    userPreferences, donationId, cached)
                      ELSE IF isCacheValid(scrapedDataCache, now)
                      THEN InFlight(c, "scraped", "findRecipientsForDonation",
                                    userPreferences, donationId, scrapedDataCache[1].data)
                      ELSE InFlight(c, "scraping", "findRecipientsForDonation",
                                    userPreferences, donationId, <<>>)
        /\ UNCHANGED <<now, storedUserId, authState, userDonations, scrapedDataCache, call>>

\* A faulty variant: the fresh listings added to the cached ones.
scrapeSettlesAppending(c) ==
    /\ pending[c].pc = "scraping"
    /\ scrapedDataCache' =
           Some([data |-> (IF scrapedDataCache = None THEN <<>>
                           ELSE scrapedDataCache[1].data) \o scrapeRealDonations,
                 timestamp |-> now])
    /\ pending' = [pending EXCEPT ![c].pc = "scraped", ![c].data = scrapeRealDonations]
    /\ UNCHANGED <<now, storedUserId, authState, userDonations, call>>

\* scrapeRealDonations settles: scrapeDonations replaces the cache and
\* returns the fresh listings.
scrapeSettles(c) ==
    /\ pending[c].pc = "scraping"
    /\ scrapedDataCache' = Some([data |-> scrapeRealDonations, timestamp |-> now])
    /\ pending' = [pending EXCEPT ![c].pc = "scraped", ![c].data = scrapeRealDonations]
    /\ UNCHANGED <<now, storedUserId, authState, userDonations, call>>

NotExcluded(d) == ~(d.source = "User Donation" /\ d.title \in ExcludedTitles)

\* The awaiting function resumes: fetchDonations filters, reads the stored
\* donations and dispatches its event; fetchDonationById takes the scraped
\* listing of that id or else looks among the stored donations.
fetchResumes(c) ==
    LET p == pending[c]
        scraped == IF p.pc = "found" THEN p.data ELSE FindById(p.data, p.donationId)
    IN  /\ p.pc \in {"scraped", "found"}
        /\ pending' =
              IF p.op = "findMatchesForRecipient"
              THEN [pending EXCEPT ![c].pc = "fetched",
                                   ![c].data = SelectSeq(p.data, NotExcluded)
                                                   \o userDonations,
                                   ![c].events = <<"donations-fetched">>]
              ELSE [pending EXCEPT ![c].pc = "fetched",
                                   ![c].data = IF scraped # None THEN scraped
                                               ELSE FindById(userDonations,
                                                             p.donationId)]
        /\ UNCHANGED <<now, storedUserId, authState, userDonations, scrapedDataCache, call>>

\* The matching function resumes with the fetched data: scope filter,
\* scoring at the clock of this moment, threshold and sort.
matchResumes(c) ==
    LET p == pending[c]
        availableDonations ==
            filterByLocationScope(p.data, p.needs[1].locationScope, p.needs[1].location)
        scored == IF p.op = "findMatchesForRecipient"
                  THEN [i \in 1..Len(availableDonations) |->
                           ScoreDonation(p.needs[1], availableDonations[i], now)]
                  ELSE IF p.data = None THEN <<>>
                  ELSE [i \in 1..Len(p.needs) |-> ScoreRecipient(p.needs[i], p.data[1])]
    IN  /\ p.pc = "fetched"
        /\ pending' = [pending EXCEPT ![c].pc = "done", ![c].at = now,
                                      ![c].result = RankMatches(scored)]
        /\ UNCHANGED <<now, storedUserId, authState, userDonations, scrapedDataCache, call>>

\* The caller takes the list.
settle(c) ==
    /\ pending[c].pc = "done"
    /\ pending' = [pending EXCEPT ![c] = [pc |-> "idle"]]
    /\ UNCHANGED <<now, storedUserId, authState, userDonations, scrapedDataCache, call>>

NextAsync ==
    \/ Tick
    \/ Return
    \/ /\ userDonations = <<>>
       /\ \A c \in Callers : pending[c].pc = "idle"
       /\ \E d \in RankDonations : submitDonation(d)
    \/ \E c \in Callers :
          \/ \E n \in RankNeeds("recipient-1") : beginFindMatchesForRecipient(c, n)
          \/ \E id \in DonationIds, ps \in RankPreferences(1) :
                beginFindRecipientsForDonation(c, id, ps)
          \/ scrapeSettles(c)
          \/ fetchResumes(c)
          \/ matchResumes(c)
          \/ settle(c)

SpecAsync == Init /\ [][NextAsync]_vars

(***************************************************************************)
(* AuthContext: the accounts and the session. localStorage "user" is       *)
(* storedUser, localStorage "users" the registered accounts, user and      *)
(* error the state of the provider.                                        *)
(***************************************************************************)
\* Array.prototype.find: the first element that satisfies the test.
FindAccount(list, email, password) ==
    LET hits == {i \in 1..Len(list) :
                    list[i].email = email /\ list[i].password = password}
    IN  IF hits = {} THEN None
        ELSE Some(list[CHOOSE i \in hits : \A j \in hits : i <= j])

login(email, password) ==
    LET demo == IF email \in DOMAIN mockUsers THEN Some(mockUsers[email]) ELSE None
        found == IF demo # None THEN demo
                 ELSE FindAccount(users, email, password)
    IN  /\ Idle
        /\ IF found = None
           THEN /\ error' = Some("Invalid email or password")
                /\ call' = [op |-> "login", at |-> now, events |-> <<>>,
                            email |-> email, password |-> password,
                            result |-> "rejected"]
                /\ UNCHANGED <<storedUserId, user, storedUser>>
           ELSE /\ storedUser' = found
                /\ storedUserId' = Some(found[1].id)
                /\ user' = found
                /\ error' = None
                /\ call' = [op |-> "login", at |-> now, events |-> <<>>,
                            email |-> email, password |-> password,
                            result |-> "resolved"]
        /\ UNCHANGED <<now, users, userDonations, scrapedDataCache, pending>>

\* The id of a new account is user-<Date.now()>: the millisecond clock has
\* moved on since the id of any account made before.
register(id, userData, password) ==
    LET taken == \E i \in 1..Len(users) : users[i].email = userData.email
        newUser == Account(id, userData.name, userData.email, userData.role,
                           password)
    IN  /\ Idle
        /\ \A i \in 1..Len(users) : users[i].id # id
        /\ IF taken
           THEN /\ error' = Some("An account with this email already exists.")
                /\ call' = [op |-> "register", at |-> now, events |-> <<>>,
                            email |-> userData.email, password |-> password,
                            result |-> "rejected"]
                /\ UNCHANGED <<storedUserId, user, storedUser, users>>
           ELSE /\ users' = Append(users, newUser)
                /\ storedUser' = Some(newUser)
                /\ storedUserId' = Some(newUser.id)
                /\ user' = Some(newUser)
                /\ error' = None
                /\ call' = [op |-> "register", at |-> now, events |-> <<>>,
                            email |-> userData.email, password |-> password,
                            result |-> "resolved"]
        /\ UNCHANGED <<now, userDonations, scrapedDataCache, pending>>

\* logout removes the stored session; the items userId, userName and
\* userEmail stay in localStorage.
logout ==
    /\ Idle
    /\ storedUser' = None
    /\ user' = None
    /\ call' = [op |-> "logout", at |-> now, events |-> <<>>]
    /\ UNCHANGED <<now, storedUserId, users, error, userDonations,
                   scrapedDataCache, pending>>

(***************************************************************************)
(* DonationForm and the stored donations of a user                         *)
(***************************************************************************)
\* The form stores the donation itself and then hands it to submitDonation,
\* which stores it once more when it carries a userId. The id of the
\* donation is USER-DON-<Date.now()>-<random>: new with every submission.
handleSubmit(donationId, values, isUrgent) ==
    LET donationData ==
            [id |-> donationId, title |-> values.title,
             category |-> values.category, source |-> "User Donation",
             date |-> toLocaleDateString(now),
             status |-> IF isUrgent THEN "urgent" ELSE "active",
             latitude |-> None, longitude |-> None,
             userId |-> storedUserId]
        existingDonations == Append(userDonations, donationData)
    IN  /\ Idle
        /\ \A i \in 1..Len(userDonations) : userDonations[i].id # donationId
        /\ userDonations' = IF donationData.userId # None
                            THEN Append(existingDonations, donationData)
                            ELSE existingDonations
        /\ call' = [op |-> "handleSubmit", at |-> now,
                    events |-> <<"new-donation", "donation-update">>,
                    donationId |-> donationId,
                    result |-> [id |-> donationId]]
        /\ UNCHANGED <<now, storedUserId, authState, scrapedDataCache, pending>>

\* Array.prototype.splice(index, 1) on a list counted from 1.
splice(list, index) ==
    [i \in 1..(Len(list) - 1) |-> IF i < index THEN list[i] ELSE list[i + 1]]

\* A faulty variant: the donation found by its id alone.
deleteUserDonationAnyOwner(donationId, userId) ==
    LET hits == {i \in 1..Len(userDonations) : userDonations[i].id = donationId}
        donationIndex == CHOOSE i \in hits : \A j \in hits : i <= j
    IN  /\ Idle
        /\ IF hits = {}
           THEN /\ call' = [op |-> "deleteUserDonation", at |-> now,
                            events |-> <<>>, donationId |-> donationId,
                            userId |-> userId, result |-> FALSE]
                /\ UNCHANGED userDonations
           ELSE /\ userDonations' = splice(userDonations, donationIndex)
                /\ call' = [op |-> "deleteUserDonation", at |-> now,
                            events |-> <<"donation-update">>,
                            donationId |-> donationId,
                            userId |-> userId, result |-> TRUE]
        /\ UNCHANGED <<now, storedUserId, authState, scrapedDataCache, pending>>

deleteUserDonation(donationId, userId) ==
    LET hits == {i \in 1..Len(userDonations) :
                    /\ userDonations[i].id = donationId
                    /\ userDonations[i].userId = Some(userId)}
        donationIndex == CHOOSE i \in hits : \A j \in hits : i <= j
    IN  /\ Idle
        /\ IF hits = {}
           THEN /\ call' = [op |-> "deleteUserDonation", at |-> now,
                            events |-> <<>>, donationId |-> donationId,
                            userId |-> userId, result |-> FALSE]
                /\ UNCHANGED userDonations
           ELSE /\ userDonations' = splice(userDonations, donationIndex)
                /\ call' = [op |-> "deleteUserDonation", at |-> now,
                            events |-> <<"donation-update">>,
                            donationId |-> donationId,
                            userId |-> userId, result |-> TRUE]
        /\ UNCHANGED <<now, storedUserId, authState, scrapedDataCache, pending>>

\* The submissions, accounts and requests of the account runs.
FormIds == {"USER-DON-" \o ToString(k) : k \in 1..MaxSubmissions}
FormValues == {[title |-> "Relief goods", category |-> "food"]}
AccountIds == {"user-" \o ToString(1000 + k) : k \in 1..MaxUsers}
Emails == DOMAIN mockUsers \cup {"new@example.com"}
Passwords == {"password123", "secret", "wrong"}
RegisterData ==
    {[name |-> "New User", email |-> e, role |-> "donor"] :
        e \in {"new@example.com"}}
OwnerEmails == {"donor@example.com", "charity@example.com"}
OwnerIds == {mockUsers[e].id : e \in OwnerEmails}

NextAccount ==
    \/ Return
    \/ \E e \in Emails, p \in Passwords : login(e, p)
    \/ \E id \in AccountIds, d \in RegisterData, p \in Passwords : register(id, d, p)
    \/ logout

SpecAccount == Init /\ [][NextAccount]_vars

NextStore ==
    \/ Return
    \/ \E e \in OwnerEmails : login(e, mockUsers[e].password)
    \/ \E id \in FormIds, v \in FormValues, u \in BOOLEAN : handleSubmit(id, v, u)
    \/ \E id \in FormIds, u \in OwnerIds : deleteUserDonation(id, u)
    \/ \E id \in FormIds, u \in OwnerIds :
          updateUserDonationStatus(id, u, "completed")

SpecStore == Init /\ [][NextStore]_vars

(***************************************************************************)
(* The cache of the scraper, as its callers see it. log is the line        *)
(* scrapeDonations writes to the console.                                  *)
(***************************************************************************)
scrapeLog(cache, t) ==
    IF isCacheValid(cache, t) THEN "Using cached donation data"
    ELSE "Scraping fresh donation data"

getDonationsByCategory(category) ==
    LET scraped == scrapeDonations(scrapedDataCache, now)
    IN  /\ Idle
        /\ call' = [op |-> "getDonationsByCategory", at |-> now,
                    events |-> <<>>,
                    log |-> scrapeLog(scrapedDataCache, now),
                    category |-> category,
                    result |-> SelectSeq(scraped.data,
                                         LAMBDA d : d.category = category)]
        /\ scrapedDataCache' = scraped.cache
        /\ UNCHANGED <<now, storedUserId, authState, userDonations, pending>>

\* refreshDonationData clears the cache and then calls scrapeDonations.
refreshDonationData ==
    LET scraped == scrapeDonations(None, now)
    IN  /\ Idle
        /\ call' = [op |-> "refreshDonationData", at |-> now,
                    events |-> <<>>,
                    log |-> scrapeLog(None, now),
                    result |-> scraped.data]
        /\ scrapedDataCache' = scraped.cache
        /\ UNCHANGED <<now, storedUserId, authState, userDonations, pending>>

NextCache ==
    \/ Elapse
    \/ Return
    \/ \E c \in Categories : getDonationsByCategory(c)
    \/ refreshDonationData
    \/ \E id \in DonationIds : loadDonation(id)

SpecCache == Init /\ [][NextCache]_vars

(***************************************************************************)
(* Reading a finished matching call                                        *)
(***************************************************************************)
Forward == call.op = "findMatchesForRecipient"
Reverse == call.op = "findRecipientsForDonation"
Matching == Forward \/ Reverse

Candidates == 1..Len(call.scored)
NeedsOf(i) == IF Forward THEN call.needs[1] ELSE call.needs[i]
DonationOf(i) == IF Forward THEN call.donations[i] ELSE call.donations[1]

\* What rule k (1 category, 2 urgency, 3 location, 4 recency) added to the
\* score of candidate i.
Added(i, k) == call.steps[i][k] - (IF k = 1 THEN 0 ELSE call.steps[i][k - 1])

HasReason(i, text) ==
    \E k \in 1..Len(call.scored[i].matchReason) : call.scored[i].matchReason[k] = text

CategoryReason(donation) == "Category match: " \o donation.category
UrgencyReason == "Urgent donation matches high urgency need"
RecencyReason == "Recently listed donation"

HasLocationReason(i) ==
    \E k \in 1..Len(call.scored[i].matchReason) :
        call.scored[i].matchReason[k]
            \notin {CategoryReason(DonationOf(i)), UrgencyReason, RecencyReason}

\* n is x rounded to the nearest integer, a tie going up, for x = num/den, den > 0.
IsRoundHalfUp(n, num, den) ==
    /\ 2 * n * den <= 2 * num + den
    /\ 2 * num + den < 2 * (n + 1) * den

(***************************************************************************)
(* C1. Threshold: every match returned by either matching operation has   *)
(* a score above 30, and a candidate that scored exactly 30 (or less) is   *)
(* not among the results.                                                  *)
(***************************************************************************)
C1_Threshold ==
    Matching =>
        /\ \A k \in 1..Len(call.result) : call.result[k].score > 30
        /\ \A i \in Candidates :
              call.scored[i].score <= 30 =>
                  \A k \in 1..Len(call.result) : call.result[k] # call.scored[i]

\* A category-only match on a listing older than seven days scored exactly
\* 30 and was left out of a non-empty result.
C1_Witness ==
    /\ Forward
    /\ call.result # <<>>
    /\ \E i \in Candidates :
          /\ call.scored[i].score = 30
          /\ call.scored[i].matchReason = <<CategoryReason(DonationOf(i))>>
          /\ call.at - DonationOf(i).date > 7 * 24
          /\ DonationOf(i).latitude = None
          /\ \A k \in 1..Len(call.result) : call.result[k] # call.scored[i]

(***************************************************************************)
(* C2. Ordering: the result is the stable descending sort by score of the  *)
(* candidates that passed the threshold: scores never increase along the   *)
(* list, and candidates of equal score keep their input order.             *)
(***************************************************************************)
C2_StableDescending ==
    Matching =>
        LET IsSurvivor(m) == m.score > 30
            survivors == SelectSeq(call.scored, IsSurvivor)
            n == Len(survivors)
            \* the place of survivor j: behind every higher score and every
            \* earlier survivor of the same score
            Place(j) == 1 + Cardinality(
                {h \in 1..n : \/ survivors[h].score > survivors[j].score
                              \/ /\ survivors[h].score = survivors[j].score
                                 /\ h < j})
        IN  /\ Len(call.result) = n
            /\ \A k \in 1..(n - 1) : call.result[k].score >= call.result[k + 1].score
            /\ \A j \in 1..n : call.result[Place(j)] = survivors[j]

\* A result of three or more matches with a tie between two different
\* candidates below a strictly better match.
C2_Witness ==
    /\ Matching
    /\ Len(call.result) >= 3
    /\ call.result[1].score > call.result[Len(call.result)].score
    /\ \E k \in 1..(Len(call.result) - 1) :
          /\ call.result[k].score = call.result[k + 1].score
          /\ call.result[k] # call.result[k + 1]

(***************************************************************************)
(* C3. Additive score: the score of a candidate is the plain sum of what   *)
(* the rules added (30 for a category match, 25 for an urgency match, the  *)
(* proximity award, the recency award), with no clamping; a listing that   *)
(* matches category and urgency, is dated now and has no coordinates       *)
(* scores 75 with three reasons and is returned.                           *)
(***************************************************************************)
C3_AdditiveScore ==
    Matching =>
        \A i \in Candidates :
            LET donation == DonationOf(i)
                needs == NeedsOf(i)
                category == IF \E k \in 1..Len(needs.categories) :
                                   needs.categories[k] = donation.category
                            THEN 30 ELSE 0
                urgency == IF needs.urgency = <<"high">> /\ donation.status = "urgent"
                           THEN 25 ELSE 0
                proximity == Added(i, 3)
                recency == IF Forward THEN Added(i, 4) ELSE 0
            IN  /\ call.scored[i].score = category + urgency + proximity + recency
                /\ (/\ Forward /\ category = 30 /\ urgency = 25
                    /\ donation.date = call.at
                    /\ donation.latitude = None /\ donation.longitude = None)
                   => /\ call.scored[i].score = 75
                      /\ Len(call.scored[i].matchReason) = 3
                      /\ \E k \in 1..Len(call.result) : call.result[k] = call.scored[i]

\* The scenario of the claim: category and urgency match, dated now, no
\* coordinates.
C3_Witness ==
    /\ Forward
    /\ \E i \in Candidates :
          /\ Added(i, 1) = 30 /\ Added(i, 2) = 25 /\ Added(i, 4) = 20
          /\ DonationOf(i).date = call.at
          /\ DonationOf(i).latitude = None /\ DonationOf(i).longitude = None
          /\ call.scored[i].score = 75
          /\ call.result[1] = call.scored[i]

(***************************************************************************)
(* C4. Category rule: in both directions the rule adds exactly 30 points   *)
(* and the reason "Category match: <category>" if and only if the          *)
(* listing's category is one of the recipient's categories; otherwise it   *)
(* adds nothing and no reason.                                             *)
(***************************************************************************)
C4_CategoryRule ==
    Matching =>
        \A i \in Candidates :
            LET member == \E k \in 1..Len(NeedsOf(i).categories) :
                              NeedsOf(i).categories[k] = DonationOf(i).category
            IN  /\ member => /\ Added(i, 1) = 30
                             /\ call.scored[i].matchReason # <<>>
                             /\ call.scored[i].matchReason[1]
                                    = CategoryReason(DonationOf(i))
                /\ ~member => /\ Added(i, 1) = 0
                              /\ ~HasReason(i, CategoryReason(DonationOf(i)))

\* A reverse call in which the category of the listing matched.
C4_Witness ==
    /\ Reverse
    /\ \E i \in Candidates :
          /\ DonationOf(i).category = "food"
          /\ NeedsOf(i).categories = <<"food">>
          /\ Added(i, 1) = 30
          /\ call.scored[i].matchReason[1] = "Category match: food"

(***************************************************************************)
(* C5. Urgency rule: in both directions the rule adds exactly 25 points    *)
(* and its reason if and only if the recipient's urgency is "high" and the *)
(* listing's status is "urgent"; any other urgency or status adds nothing. *)
(***************************************************************************)
C5_UrgencyRule ==
    Matching =>
        \A i \in Candidates :
            LET aligned == /\ NeedsOf(i).urgency = <<"high">>
                           /\ DonationOf(i).status = "urgent"
            IN  /\ aligned => Added(i, 2) = 25 /\ HasReason(i, UrgencyReason)
                /\ ~aligned => Added(i, 2) = 0 /\ ~HasReason(i, UrgencyReason)

\* An urgent listing scored for a recipient of medium urgency: nothing added.
C5_Witness ==
    /\ Matching
    /\ \E i \in Candidates :
          /\ DonationOf(i).status = "urgent"
          /\ NeedsOf(i).urgency = <<"medium">>
          /\ Added(i, 2) = 0

\* The location rule has something to measure on every reading of it: the
\* recipient has a location and the listing has coordinates, none of them 0.
LocatedPair(i) ==
    /\ NeedsOf(i).location # None
    /\ DonationOf(i).latitude # None /\ DonationOf(i).longitude # None
    /\ DonationOf(i).latitude[1] # 0 /\ DonationOf(i).longitude[1] # 0

DistanceOf(i) ==
    calculateDistance(NeedsOf(i).location[1].latitude, NeedsOf(i).location[1].longitude,
                      DonationOf(i).latitude[1], DonationOf(i).longitude[1])

(***************************************************************************)
(* C6. Proximity award: applied with distance d and a radius m (the        *)
(* supplied non-zero maxDistance, or 50 when none is supplied), the rule   *)
(* adds 25 * (1 - d/m) rounded half up when d <= m (25 at d = 0, 13 at     *)
(* d = 25 for m = 50, 0 at d = m) and nothing, with no reason, when d > m; *)
(* what the rule adds is always within 0..25.                              *)
(***************************************************************************)
C6_ProximityAward ==
    Matching =>
        \A i \in Candidates :
            /\ Added(i, 3) \in 0..25
            /\ (LocatedPair(i) /\ NeedsOf(i).maxDistance # <<0>>) =>
                  LET d == DistanceOf(i)
                      m == IF NeedsOf(i).maxDistance = <<>> THEN 50
                           ELSE NeedsOf(i).maxDistance[1]
                  IN  /\ d <= m => /\ IsRoundHalfUp(Added(i, 3), 25 * (m - d), m)
                                   /\ HasLocationReason(i)
                      /\ (d = 0 /\ d <= m) => Added(i, 3) = 25
                      /\ (m = 50 /\ d = 25) => Added(i, 3) = 13
                      /\ d = m => Added(i, 3) = 0
                      /\ d > m => Added(i, 3) = 0 /\ ~HasLocationReason(i)

\* Half the radius away: 12.5 is rounded up to 13.
C6_Witness ==
    /\ Matching
    /\ \E i \in Candidates :
          /\ LocatedPair(i)
          /\ NeedsOf(i).maxDistance = <<50>>
          /\ DistanceOf(i) = 25
          /\ Added(i, 3) = 13
          /\ HasReason(i, "Location proximity: 25km away")

(***************************************************************************)
(* C7. Proximity applicability: the rule is applied whenever the recipient *)
(* has a location and the listing has a latitude and a longitude, whatever *)
(* their values (0 included); a listing at distance 0 of a recipient at    *)
(* (0,0) with maxDistance 50 receives the 25 points.                       *)
(***************************************************************************)
C7_ProximityWheneverPresent ==
    Matching =>
        \A i \in Candidates :
            (/\ NeedsOf(i).location # None
             /\ DonationOf(i).latitude # None /\ DonationOf(i).longitude # None
             /\ NeedsOf(i).maxDistance = <<50>>
             /\ DistanceOf(i) = 0)
            => Added(i, 3) = 25 /\ HasLocationReason(i)

(***************************************************************************)
(* C8. Default radius: the radius of the proximity rule is maxDistance     *)
(* whenever it is supplied, whatever its value, and 50 exactly when it is  *)
(* absent: a listing farther away than the supplied maxDistance gets no    *)
(* proximity award and no reason.                                          *)
(***************************************************************************)
C8_SuppliedRadiusUsed ==
    Matching =>
        \A i \in Candidates :
            LocatedPair(i) =>
                /\ (NeedsOf(i).maxDistance # None
                    /\ DistanceOf(i) > NeedsOf(i).maxDistance[1])
                   => Added(i, 3) = 0 /\ ~HasLocationReason(i)
                /\ NeedsOf(i).maxDistance = None
                   => (HasLocationReason(i) <=> DistanceOf(i) <= 50)

(***************************************************************************)
(* C9. Recency decay: in findMatchesForRecipient a listing aged h hours    *)
(* (daysSince = h / 24) gets 20 * (1 - daysSince/7) rounded half up when   *)
(* daysSince <= 7 and nothing when daysSince > 7: 20 when dated now, 10    *)
(* at 3.5 days, 0 at exactly 7 days.                                       *)
(***************************************************************************)
C9_RecencyDecay ==
    Forward =>
        \A i \in Candidates :
            LET h == call.at - DonationOf(i).date
            IN  /\ h <= 7 * 24 => /\ IsRoundHalfUp(Added(i, 4), 20 * (7 * 24 - h), 7 * 24)
                                  /\ HasReason(i, RecencyReason)
                /\ h > 7 * 24 => Added(i, 4) = 0 /\ ~HasReason(i, RecencyReason)
                /\ h = 0 => Added(i, 4) = 20
                /\ h = 84 => Added(i, 4) = 10
                /\ h = 7 * 24 => Added(i, 4) = 0

\* A listing 105 hours old: 7.5 is rounded up to 8.
C9_Witness ==
    /\ Forward
    /\ \E i \in Candidates :
          /\ call.at - DonationOf(i).date = 105
          /\ Added(i, 4) = 8

(***************************************************************************)
(* C10. Recency range: whatever the listing's date and the clock (a date   *)
(* later than now included), the recency rule adds between 0 and 20.       *)
(***************************************************************************)
C10_RecencyInRange ==
    Forward => \A i \in Candidates : Added(i, 4) \in 0..20
(***************************************************************************)
(* C11. Reason list, as claimed: matchReason holds exactly one string for  *)
(* each rule that added points to the score, in rule order (category,      *)
(* urgency, location, recency), and no string for a rule that added 0.     *)
(***************************************************************************)
C11_ReasonIffPoints ==
    Matching =>
        \A i \in Candidates :
            call.scored[i].matchReason =
                (IF Added(i, 1) # 0 THEN <<CategoryReason(DonationOf(i))>> ELSE <<>>)
                \o (IF Added(i, 2) # 0 THEN <<UrgencyReason>> ELSE <<>>)
                \o (IF Added(i, 3) # 0
                    THEN <<"Location proximity: " \o ToString(DistanceOf(i)) \o "km away">>
                    ELSE <<>>)
                \o (IF Forward /\ Added(i, 4) # 0 THEN <<RecencyReason>> ELSE <<>>)

(***************************************************************************)
(* C11, amended. matchReason holds, in rule order, exactly one string for  *)
(* each rule whose condition held: the category and urgency strings        *)
(* exactly when their rule added points, the location string exactly when  *)
(* the rule was applied within the radius, the recency string exactly when *)
(* the listing is at most 7 days old. A rule that added points always has  *)
(* its string, but the location and recency strings also stand for an      *)
(* award of 0 (at the edge of the radius, at the end of the 7 days).       *)
(***************************************************************************)
C11_ReasonPerAppliedRule ==
    Matching =>
        \A i \in Candidates :
            LET located == HasLocationReason(i)
                recent == Forward /\ call.at - DonationOf(i).date <= 7 * 24
            IN  /\ call.scored[i].matchReason =
                       (IF Added(i, 1) # 0 THEN <<CategoryReason(DonationOf(i))>> ELSE <<>>)
                       \o (IF Added(i, 2) # 0 THEN <<UrgencyReason>> ELSE <<>>)
                       \o (IF located
                           THEN <<"Location proximity: " \o ToString(DistanceOf(i))
                                      \o "km away">>
                           ELSE <<>>)
                       \o (IF recent THEN <<RecencyReason>> ELSE <<>>)
                /\ Added(i, 3) # 0 => located
                /\ located => /\ NeedsOf(i).location # None
                              /\ DonationOf(i).latitude # None
                              /\ DonationOf(i).longitude # None
                              /\ DistanceOf(i) <= IF NeedsOf(i).maxDistance \in {<<>>, <<0>>}
                                                  THEN 50
                                                  ELSE NeedsOf(i).maxDistance[1]
                /\ (Forward /\ Added(i, 4) # 0) => recent

\* A listing exactly seven days old at the edge of the radius: both strings
\* behind the category string, and nothing added by either rule.
C11_Witness ==
    /\ Forward
    /\ \E i \in Candidates :
          /\ Added(i, 1) = 30 /\ Added(i, 3) = 0 /\ Added(i, 4) = 0
          /\ LocatedPair(i)
          /\ DistanceOf(i) = 50
          /\ call.at - DonationOf(i).date = 7 * 24
          /\ call.scored[i].matchReason =
                 <<CategoryReason(DonationOf(i)), "Location proximity: 50km away",
                   RecencyReason>>

(***************************************************************************)
(* C12. Reverse direction omits recency: in findRecipientsForDonation the  *)
(* score of each recipient is fixed by the donation's category, status and *)
(* coordinates and by the recipient's needs alone (30 for the category, 25 *)
(* for the urgency, the proximity award), so it is the same for any        *)
(* donation date and any clock value, and no result carries the reason     *)
(* "Recently listed donation".                                             *)
(***************************************************************************)
C12_ReverseOmitsRecency ==
    Reverse =>
        /\ \A i \in Candidates :
              LET donation == DonationOf(i)
                  needs == NeedsOf(i)
                  category == IF \E k \in 1..Len(needs.categories) :
                                     needs.categories[k] = donation.category
                              THEN 30 ELSE 0
                  urgency == IF needs.urgency = <<"high">> /\ donation.status = "urgent"
                             THEN 25 ELSE 0
                  applied == /\ needs.location # <<>>
                             /\ donation.latitude \notin {<<>>, <<0>>}
                             /\ donation.longitude \notin {<<>>, <<0>>}
                  m == IF needs.maxDistance \in {<<>>, <<0>>} THEN 50
                       ELSE needs.maxDistance[1]
                  proximity == call.scored[i].score - category - urgency
              IN  /\ Len(call.steps[i]) = 3
                  /\ ~HasReason(i, RecencyReason)
                  /\ IF applied /\ DistanceOf(i) <= m
                     THEN IsRoundHalfUp(proximity, 25 * (m - DistanceOf(i)), m)
                     ELSE proximity = 0
        /\ \A k \in 1..Len(call.result) :
              \A j \in 1..Len(call.result[k].matchReason) :
                  call.result[k].matchReason[j] # RecencyReason

\* A returned recipient of a donation dated at the moment of the call, after
\* the clock has advanced: a forward match would have carried 20 more points.
C12_Witness ==
    /\ Reverse
    /\ call.at > Now0
    /\ call.donations # <<>>
    /\ call.donations[1].date = call.at - TickHours
    /\ call.result # <<>>
    /\ call.result[1].score = 55
    /\ call.result[1].matchReason = <<"Category match: food", UrgencyReason>>

(***************************************************************************)
(* C13. Unknown donation id: findRecipientsForDonation called with an id   *)
(* that no scraped listing and no stored donation carries settles with the *)
(* empty list, whatever the list of recipients is: no recipient is scored. *)
(***************************************************************************)
C13_UnknownDonationId ==
    Reverse =>
        ((/\ \A k \in 1..Len(mockFilipinoDonations) :
                mockFilipinoDonations[k].id # call.donationId
          /\ \A k \in 1..Len(userDonations) : userDonations[k].id # call.donationId)
         => /\ call.donations = <<>>
            /\ call.scored = <<>>
            /\ call.result = <<>>)

\* Two recipients who want food urgently, a stored urgent food donation, and
\* an id that belongs to no listing.
C13_Witness ==
    /\ Reverse
    /\ call.donationId = "nonexistent-id"
    /\ Len(call.needs) = 2
    /\ \A i \in 1..2 : /\ call.needs[i].categories = <<"food">>
                        /\ call.needs[i].urgency = <<"high">>
    /\ \E k \in 1..Len(userDonations) :
          userDonations[k].category = "food" /\ userDonations[k].status = "urgent"
    /\ call.result = <<>>

(***************************************************************************)
(* C14. Missing optional fields, as claimed: when the recipient has no     *)
(* location, no urgency or no maxDistance, or the donation has no          *)
(* coordinates, the rule that depends on the field is skipped: it adds     *)
(* nothing and leaves no reason.                                           *)
(***************************************************************************)
C14_MissingFieldSkipsRule ==
    Matching =>
        \A i \in Candidates :
            /\ NeedsOf(i).urgency = <<>>
               => Added(i, 2) = 0 /\ ~HasReason(i, UrgencyReason)
            /\ (\/ NeedsOf(i).location = <<>>
                \/ NeedsOf(i).maxDistance = <<>>
                \/ DonationOf(i).latitude = <<>>
                \/ DonationOf(i).longitude = <<>>)
               => Added(i, 3) = 0 /\ ~HasLocationReason(i)

(***************************************************************************)
(* C14, amended. A recipient without urgency skips the urgency rule; a     *)
(* recipient without location, or a donation without a latitude or a       *)
(* longitude, skips the proximity rule; the skipped rule adds nothing and  *)
(* leaves no reason, and the category and recency rules give what they     *)
(* give when the field is present. A missing maxDistance skips nothing:    *)
(* the proximity rule is applied with a radius of 50.                      *)
(***************************************************************************)
C14_AbsentFieldHandling ==
    Matching =>
        \A i \in Candidates :
            LET donation == DonationOf(i)
                needs == NeedsOf(i)
                h == call.at - donation.date
            IN  /\ needs.urgency = <<>>
                   => Added(i, 2) = 0 /\ ~HasReason(i, UrgencyReason)
                /\ (\/ needs.location = <<>>
                    \/ donation.latitude = <<>>
                    \/ donation.longitude = <<>>)
                   => Added(i, 3) = 0 /\ ~HasLocationReason(i)
                /\ (needs.maxDistance = <<>> /\ LocatedPair(i))
                   => IF DistanceOf(i) <= 50
                      THEN /\ IsRoundHalfUp(Added(i, 3), 25 * (50 - DistanceOf(i)), 50)
                           /\ HasLocationReason(i)
                      ELSE Added(i, 3) = 0 /\ ~HasLocationReason(i)
                /\ Added(i, 1) = IF \E k \in 1..Len(needs.categories) :
                                       needs.categories[k] = donation.category
                                 THEN 30 ELSE 0
                /\ HasReason(i, CategoryReason(donation)) <=> Added(i, 1) = 30
                /\ Forward =>
                      IF h <= 7 * 24
                      THEN /\ IsRoundHalfUp(Added(i, 4), 20 * (7 * 24 - h), 7 * 24)
                           /\ HasReason(i, RecencyReason)
                      ELSE Added(i, 4) = 0 /\ ~HasReason(i, RecencyReason)
                /\ call.scored[i].score = call.steps[i][Len(call.steps[i])]

\* A recipient with a location but neither urgency nor maxDistance, and an
\* urgent listing 25 km away: no urgency points, 13 proximity points.
C14_Witness ==
    /\ Matching
    /\ \E i \in Candidates :
          /\ NeedsOf(i).urgency = <<>>
          /\ NeedsOf(i).maxDistance = <<>>
          /\ DonationOf(i).status = "urgent"
          /\ LocatedPair(i)
          /\ DistanceOf(i) = 25
          /\ Added(i, 2) = 0
          /\ Added(i, 3) = 13
          /\ HasReason(i, "Location proximity: 25km away")

(***************************************************************************)
(* C15. No side effects, as claimed: a call of findMatchesForRecipient or  *)
(* findRecipientsForDonation writes nothing to storage and dispatches no   *)
(* application event.                                                      *)
(***************************************************************************)
C15_NoSideEffects ==
    [][Matching' =>
          /\ userDonations' = userDonations
          /\ storedUserId' = storedUserId
          /\ call'.events = <<>>]_vars

(***************************************************************************)
(* C15, amended. Neither matching operation writes to the stored           *)
(* donations or the stored user id. findRecipientsForDonation dispatches   *)
(* no event; findMatchesForRecipient dispatches exactly one                *)
(* "donations-fetched" event. Either call leaves the scrape cache as it    *)
(* was or replaces it by the freshly scraped listings stamped with the     *)
(* clock, and always leaves a cache behind.                                *)
(***************************************************************************)
C15_EffectsOfMatching ==
    [][Matching' =>
          /\ userDonations' = userDonations
          /\ storedUserId' = storedUserId
          /\ Forward' => call'.events = <<"donations-fetched">>
          /\ Reverse' => call'.events = <<>>
          /\ \/ scrapedDataCache' = scrapedDataCache /\ scrapedDataCache # <<>>
             \/ scrapedDataCache' = <<[data |-> mockFilipinoDonations,
                                       timestamp |-> now]>>]_vars

\* The first forward call over a non-empty store: the event is out and the
\* cache, empty before, is filled at the time of the call.
C15_Witness ==
    /\ Forward
    /\ call.events = <<"donations-fetched">>
    /\ userDonations # <<>>
    /\ scrapedDataCache # <<>>
    /\ scrapedDataCache[1].timestamp = call.at

(***************************************************************************)
(* Reading overlapping calls                                               *)
(***************************************************************************)
\* What the call returns when it runs alone, from an empty cache, over the
\* stored donations at clock t.
AloneForward(needs, t) ==
    LET fetched == fetchDonationsByLocationScope(<<>>, t, userDonations,
                                                 needs.locationScope, needs.location)
    IN  RankMatches([i \in 1..Len(fetched.data) |->
                        ScoreDonation(needs, fetched.data[i], t)])

AloneReverse(donationId, userPreferences, t) ==
    LET fetched == fetchDonationById(<<>>, t, userDonations, donationId)
    IN  IF fetched.donation = <<>> THEN <<>>
        ELSE RankMatches([i \in 1..Len(userPreferences) |->
                             ScoreRecipient(userPreferences[i], fetched.donation[1])])

SameAsAlone ==
    \A c \in Callers :
        pending[c].pc = "done" =>
            pending[c].result =
                IF pending[c].op = "findMatchesForRecipient"
                THEN AloneForward(pending[c].needs[1], pending[c].at)
                ELSE AloneReverse(pending[c].donationId, pending[c].needs, pending[c].at)

(***************************************************************************)
(* C16. Concurrency safety, as claimed: the matching operations write no   *)
(* state shared between calls (no step of a call changes the scrape cache  *)
(* that the other calls read), and under any interleaving of overlapping   *)
(* calls each call returns what it returns when it runs alone.             *)
(***************************************************************************)
C16_NoSharedState ==
    /\ []SameAsAlone
    /\ [][pending' # pending => scrapedDataCache' = scrapedDataCache]_vars

(***************************************************************************)
(* C16, amended. Overlapping matching calls do share state: each reads the *)
(* module-level scrape cache and the stored donations, and a call that     *)
(* found the cache empty or stale replaces it. Every scrape yields the     *)
(* same listings and the matching calls write nothing else, so under any   *)
(* interleaving at the await points each call still returns what it        *)
(* returns when it runs alone over the same store at the clock it reads.   *)
(***************************************************************************)
C16_SameAsAlone ==
    /\ SameAsAlone
    /\ scrapedDataCache # <<>> => scrapedDataCache[1].data = mockFilipinoDonations

\* Both callers found the cache empty; the first has replaced it and has its
\* matches while the second is still scraping and will replace it again.
C16_Witness ==
    /\ pending["first"].pc = "done"
    /\ pending["first"].op = "findMatchesForRecipient"
    /\ pending["first"].result # <<>>
    /\ pending["second"].pc = "scraping"
    /\ scrapedDataCache # <<>>
    /\ userDonations # <<>>

(***************************************************************************)
(* Reading a rendered timeline                                             *)
(***************************************************************************)
Tracked == call.op = "DonationTracker" /\ call.donation # <<>>
HasStage(stage) == \E k \in 1..Len(call.timeline) : call.timeline[k].status = stage

(***************************************************************************)
(* C19. Timeline start: for every donation, whatever its status and the    *)
(* clock, the timeline is non-empty, its first event has stage "listed"    *)
(* and the timestamp donation.date, and the stage of every event is one of *)
(* listed, matched, urgent, arranged, completed.                           *)
(***************************************************************************)
C19_TimelineStart ==
    Tracked =>
        /\ call.timeline # <<>>
        /\ call.timeline[1].status = "listed"
        /\ call.timeline[1].timestamp = call.donation[1].date
        /\ \A k \in 1..Len(call.timeline) :
              call.timeline[k].status
                  \in {"listed", "matched", "urgent", "arranged", "completed"}

(***************************************************************************)
(* C20. Matched stage: the timeline holds a matched event, stamped with    *)
(* the calendar day of date + 12 h, exactly when date + 12 h <= now or the *)
(* status is urgent or completed; the timeline of an active donation       *)
(* listed less than 12 hours ago is the "Donation Listed" event alone.     *)
(***************************************************************************)
C20_MatchedStage ==
    Tracked =>
        LET donation == call.donation[1]
            due == donation.date + 12
            matched == {k \in 1..Len(call.timeline) : call.timeline[k].status = "matched"}
        IN  /\ matched # {} <=> (due <= call.at \/ donation.status \in {"urgent", "completed"})
            /\ Cardinality(matched) <= 1
            /\ \A k \in matched :
                  /\ call.timeline[k].timestamp <= due
                  /\ due < call.timeline[k].timestamp + 24
                  /\ call.timeline[k].timestamp % 24 = 0
            /\ (donation.status = "active" /\ call.at - donation.date < 12)
               => /\ Len(call.timeline) = 1
                  /\ call.timeline[1].id = "1"
                  /\ call.timeline[1].title = "Donation Listed"
                  /\ call.timeline[1].timestamp = donation.date

\* An active donation listed exactly 12 hours ago: the matched event is there.
C20_Witness ==
    /\ Tracked
    /\ call.donation[1].status = "active"
    /\ call.at - call.donation[1].date = 12
    /\ Len(call.timeline) = 2
    /\ call.timeline[2].status = "matched"

(***************************************************************************)
(* C17. Input immutability: a matching call or the derivation of a         *)
(* timeline changes no field of the records it is given: the stored        *)
(* donations and the scraped listings held by the cache (the very records  *)
(* handed to the scoring callbacks and to the tracker) are afterwards what *)
(* they were, and every record the call worked on is one of them.          *)
(***************************************************************************)
C17_InputsUnchanged ==
    [][(Matching' \/ Tracked') =>
          LET Known(d) == \/ \E k \in 1..Len(mockFilipinoDonations) :
                               d = mockFilipinoDonations[k]
                          \/ \E k \in 1..Len(userDonations) : d = userDonations[k]
          IN  /\ userDonations' = userDonations
              /\ scrapedDataCache' # <<>>
              /\ scrapedDataCache'[1].data = mockFilipinoDonations
              /\ scrapedDataCache # <<>>
                 => scrapedDataCache'[1].data = scrapedDataCache[1].data
              /\ Matching' => \A i \in 1..Len(call'.donations) : Known(call'.donations[i])
              /\ Tracked' => Known(call'.donation[1])]_vars

\* A forward call over a filled cache and a stored donation that returned
\* matches for scraped and stored listings alike.
C17_Witness ==
    /\ Forward
    /\ userDonations # <<>>
    /\ scrapedDataCache # <<>>
    /\ scrapedDataCache[1].timestamp < call.at
    /\ call.donations = mockFilipinoDonations \o userDonations
    /\ \E k \in 1..Len(call.result) : call.result[k].donationId = "USER-DON-1"
    /\ \E k \in 1..Len(call.result) : call.result[k].donationId # "USER-DON-1"

(***************************************************************************)
(* C18. Determinism: the list returned by findMatchesForRecipient is fixed *)
(* by the stored donations, the needs and the clock, and the timeline by   *)
(* the donation and the clock: neither depends on what earlier calls left  *)
(* in the scrape cache, so two calls with the same store, inputs and clock *)
(* return identical lists.                                                 *)
(***************************************************************************)
C18_Determinism ==
    /\ Forward => call.result = AloneForward(call.needs[1], call.at)
    /\ call.op = "DonationTracker" =>
          LET found == fetchDonationById(<<>>, call.at, userDonations, call.donationId)
          IN  /\ call.donation = found.donation
              /\ call.timeline = IF found.donation = <<>> THEN <<>>
                                 ELSE generateStatusTimeline(found.donation[1], call.at)

\* A forward call answered from the cache that an earlier call filled, with
\* the last scraped listing among its matches.
C18_Witness ==
    /\ Forward
    /\ scrapedDataCache # <<>>
    /\ scrapedDataCache[1].timestamp < call.at
    /\ \E k \in 1..Len(call.result) :
          call.result[k].donationId =
              mockFilipinoDonations[Len(mockFilipinoDonations)].id

(***************************************************************************)
(* C21. Urgent and arranged stages: the timeline holds an urgent event,    *)
(* stamped with the calendar day of date + 24 h, exactly when the status   *)
(* is urgent; an urgent donation has an arranged event, stamped with the   *)
(* day of date + 30 h, only if date + 30 h has elapsed or the status is    *)
(* completed (and it has one once date + 30 h has elapsed); a donation     *)
(* that is not urgent never has an arranged event.                         *)
(***************************************************************************)
C21_UrgentAndArranged ==
    Tracked =>
        LET donation == call.donation[1]
            urgent == {k \in 1..Len(call.timeline) : call.timeline[k].status = "urgent"}
            arranged == {k \in 1..Len(call.timeline) :
                            call.timeline[k].status = "arranged"}
            DayOf(k, instant) ==
                /\ call.timeline[k].timestamp <= instant
                /\ instant < call.timeline[k].timestamp + 24
                /\ call.timeline[k].timestamp % 24 = 0
        IN  /\ urgent # {} <=> donation.status = "urgent"
            /\ \A k \in urgent : DayOf(k, donation.date + 24)
            /\ (donation.status = "urgent" /\ arranged # {})
               => (donation.date + 30 <= call.at \/ donation.status = "completed")
            /\ (donation.status = "urgent" /\ donation.date + 30 <= call.at)
               => arranged # {}
            /\ \A k \in arranged : DayOf(k, donation.date + 30)
            /\ donation.status # "urgent" => arranged = {}

\* An urgent donation listed exactly 30 hours ago: urgent and arranged events.
C21_Witness ==
    /\ Tracked
    /\ call.donation[1].status = "urgent"
    /\ call.at - call.donation[1].date = 30
    /\ HasStage("urgent")
    /\ HasStage("arranged")

(***************************************************************************)
(* C22. Completed timeline: for a donation of status completed and any     *)
(* clock value, one before date + 7 days included, the timeline is exactly *)
(* three events: the "Donation Listed" event at date, the matched event at *)
(* the day of date + 12 h and the completed event at the day of date + 7   *)
(* days; there is no urgent and no arranged event.                         *)
(***************************************************************************)
C22_CompletedTimeline ==
    (Tracked /\ call.donation[1].status = "completed") =>
        LET donation == call.donation[1]
            DayOf(k, instant) ==
                /\ call.timeline[k].timestamp <= instant
                /\ instant < call.timeline[k].timestamp + 24
                /\ call.timeline[k].timestamp % 24 = 0
        IN  /\ Len(call.timeline) = 3
            /\ call.timeline[1].id = "1"
            /\ call.timeline[1].title = "Donation Listed"
            /\ call.timeline[1].timestamp = donation.date
            /\ call.timeline[2].status = "matched"
            /\ DayOf(2, donation.date + 12)
            /\ call.timeline[3].status = "completed"
            /\ DayOf(3, donation.date + 7 * 24)
            /\ call.timeline[3].timestamp = donation.date + 7 * 24
            /\ ~HasStage("urgent") /\ ~HasStage("arranged")

\* A donation completed on the day it was listed, seen less than 12 hours
\* after its date: the completed event lies a week ahead of the clock.
C22_Witness ==
    /\ Tracked
    /\ call.donation[1].status = "completed"
    /\ call.at - call.donation[1].date < 12
    /\ Len(call.timeline) = 3
    /\ call.timeline[3].timestamp > call.at

(***************************************************************************)
(* C23. Timeline order: in every timeline the stages appear in the fixed   *)
(* order listed, matched, urgent, arranged, completed (the listed stage    *)
(* being the "Donation Listed" event), each at most once, with strictly    *)
(* increasing event ids and non-decreasing timestamps.                     *)
(***************************************************************************)
C23_TimelineOrder ==
    Tracked =>
        LET StageOrder == <<"listed", "matched", "urgent", "arranged", "completed">>
            Ids == <<"1", "2", "3", "4", "5">>
            Stage(e) == IF e.title = "Donation Listed" THEN "listed" ELSE e.status
            PlaceIn(list, x) == CHOOSE p \in 1..Len(list) : list[p] = x
            n == Len(call.timeline)
        IN  /\ \A k \in 1..n :
                  /\ \E p \in 1..5 : StageOrder[p] = Stage(call.timeline[k])
                  /\ \E p \in 1..5 : Ids[p] = call.timeline[k].id
            /\ \A j, k \in 1..n :
                  j < k =>
                      /\ PlaceIn(StageOrder, Stage(call.timeline[j]))
                             < PlaceIn(StageOrder, Stage(call.timeline[k]))
                      /\ PlaceIn(Ids, call.timeline[j].id)
                             < PlaceIn(Ids, call.timeline[k].id)
                      /\ call.timeline[j].timestamp <= call.timeline[k].timestamp

\* An urgent donation past its 30 hours: four events, the first two on the
\* day of the listing and the last two on the next day.
C23_Witness ==
    /\ Tracked
    /\ Len(call.timeline) = 4
    /\ call.timeline[2].status = "matched"
    /\ call.timeline[3].status = "urgent"
    /\ call.timeline[4].status = "arranged"
    /\ call.timeline[1].timestamp = call.timeline[2].timestamp
    /\ call.timeline[2].timestamp < call.timeline[3].timestamp
    /\ call.timeline[3].timestamp = call.timeline[4].timestamp

(***************************************************************************)
(* C24. Progress percentage: useDonationStatus maps the stage to           *)
(* (index + 1) / 4 * 100 over listed, matched, arranged, completed, i.e.   *)
(* 25, 50, 75, 100: strictly increasing along the stage order and always   *)
(* within 25..100 for these four stages.                                   *)
(***************************************************************************)
C24_ProgressPercentage ==
    call.op = "useDonationStatus" =>
        LET Order == <<"listed", "matched", "arranged", "completed">>
            Expected == [s \in {"listed", "matched", "arranged", "completed"} |->
                            CASE s = "listed" -> 25
                              [] s = "matched" -> 50
                              [] s = "arranged" -> 75
                              [] s = "completed" -> 100]
        IN  /\ call.currentStatus \in DOMAIN Expected
               => /\ call.progressPercentage = Expected[call.currentStatus]
                  /\ call.progressPercentage \in 25..100
                  /\ \E p \in 1..4 : /\ Order[p] = call.currentStatus
                                      /\ 4 * call.progressPercentage = p * 100
            /\ \A p \in 1..3 :
                  getProgressPercentage(Order[p]) < getProgressPercentage(Order[p + 1])

\* The tracker rendered at the arranged stage: three quarters.
C24_Witness ==
    /\ call.op = "useDonationStatus"
    /\ call.currentStatus = "arranged"
    /\ call.progressPercentage = 75

C26_SubmitThenDelete ==
    (call.op = "deleteUserDonation" /\ call.result = TRUE)
    => /\ \A i \in 1..Len(userDonations) : userDonations[i].id # call.donationId
       /\ FindById(userDonations, call.donationId) = None

(***************************************************************************)
(* C27. Ownership check: deleteUserDonation and updateUserDonationStatus   *)
(* return false, leave the stored donations unchanged and dispatch no      *)
(* donation-update event when no stored donation has both the id and the   *)
(* userId of the request; when they return true, one record of that id and *)
(* owner was removed (respectively had only its status changed) and every  *)
(* other record is unchanged.                                              *)
(***************************************************************************)
OwnedBy(request) ==
    {i \in 1..Len(userDonations) :
        /\ userDonations[i].id = request.donationId
        /\ userDonations[i].userId = Some(request.userId)}

RemovedAt(k) ==
    /\ Len(userDonations') = Len(userDonations) - 1
    /\ \A i \in 1..Len(userDonations') :
          userDonations'[i] = IF i < k THEN userDonations[i]
                              ELSE userDonations[i + 1]

StatusChangedAt(k, newStatus) ==
    /\ Len(userDonations') = Len(userDonations)
    /\ \A i \in 1..Len(userDonations) :
          userDonations'[i] = IF i = k
                              THEN [userDonations[i] EXCEPT !.status = newStatus]
                              ELSE userDonations[i]

C27_OwnershipCheck ==
    [][(Idle /\ call'.op \in {"deleteUserDonation", "updateUserDonationStatus"})
       => /\ call'.result = (OwnedBy(call') # {})
          /\ OwnedBy(call') = {}
             => /\ userDonations' = userDonations
                /\ call'.events = <<>>
          /\ OwnedBy(call') # {}
             => /\ call'.events = <<"donation-update">>
                /\ \E k \in OwnedBy(call') :
                      IF call'.op = "deleteUserDonation"
                      THEN RemovedAt(k)
                      ELSE StatusChangedAt(k, call'.newStatus)]_vars

\* A donation of one owner was deleted while a donation of another owner is
\* stored.
C27_Witness ==
    /\ call.op = "deleteUserDonation"
    /\ call.result = TRUE
    /\ \E i \in 1..Len(userDonations) :
          /\ userDonations[i].id # call.donationId
          /\ userDonations[i].userId # Some(call.userId)

(***************************************************************************)
(* C28. Login requires the right password: login sets the current user and *)
(* the stored session only when the password is the one of the account     *)
(* known for the email, demo or registered; with any other password it     *)
(* fails with "Invalid email or password".                                 *)
(***************************************************************************)
KnownAccount(email, password) ==
    \/ email \in DOMAIN mockUsers /\ mockUsers[email].password = password
    \/ \E i \in 1..Len(users) :
          users[i].email = email /\ users[i].password = password

C28_LoginRequiresPassword ==
    call.op = "login"
    => /\ call.result = "resolved" <=> KnownAccount(call.email, call.password)
       /\ call.result = "resolved"
          => /\ user # None /\ user[1].email = call.email
             /\ storedUser = user
       /\ call.result = "rejected"
          => error = Some("Invalid email or password")

(***************************************************************************)
(* C29. Cache freshness: scrapeDonations answers from the cache without    *)
(* scraping exactly when an entry exists and is less than 24 hours old;    *)
(* otherwise it scrapes and the entry becomes the fresh data with the      *)
(* current time; refreshDonationData always scrapes; and the timestamp of  *)
(* the cache never decreases.                                              *)
(***************************************************************************)
ScrapingCall(op) == op \in {"getDonationsByCategory", "refreshDonationData"}

FreshEntry ==
    /\ scrapedDataCache # <<>>
    /\ now - scrapedDataCache[1].timestamp < 24

C29_CacheFreshness ==
    [][/\ (Idle /\ ScrapingCall(call'.op))
          => /\ call'.op = "getDonationsByCategory"
                => (call'.log = "Using cached donation data" <=> FreshEntry)
             /\ call'.op = "refreshDonationData"
                => call'.log = "Scraping fresh donation data"
             /\ call'.log = "Using cached donation data"
                => scrapedDataCache' = scrapedDataCache
             /\ call'.log = "Scraping fresh donation data"
                => scrapedDataCache' = <<[data |-> mockFilipinoDonations,
                                          timestamp |-> now]>>
       /\ (scrapedDataCache # <<>> /\ scrapedDataCache' # <<>>)
          => scrapedDataCache'[1].timestamp >= scrapedDataCache[1].timestamp
      ]_vars

\* An answer from an entry 18 hours old.
C29_Witness ==
    /\ call.op = "getDonationsByCategory"
    /\ call.log = "Using cached donation data"
    /\ scrapedDataCache # <<>>
    /\ now - scrapedDataCache[1].timestamp = 18

(***************************************************************************)
(* C30. Timeline grows with time: for a donation whose status and date     *)
(* stay fixed, every event of the timeline rendered at one clock value is  *)
(* present, with the same stage and timestamp and in the same relative     *)
(* order, in the timeline of any later clock value.                        *)
(***************************************************************************)
LaterClocks ==
    {call.at + k * AgeStepHours : k \in 0..MaxAgeSteps}

\* earlier is found within later, event for event and in order.
Embeds(earlier, later) ==
    \E f \in [1..Len(earlier) -> 1..Len(later)] :
        /\ \A i \in 1..Len(earlier) : later[f[i]] = earlier[i]
        /\ \A i, j \in 1..Len(earlier) : i < j => f[i] < f[j]

C30_TimelineGrows ==
    Tracked =>
        \A t \in LaterClocks :
            LET later == generateStatusTimeline(call.donation[1], t)
            IN  /\ Len(call.timeline) <= Len(later)
                /\ Embeds(call.timeline, later)

\* An urgent donation rendered before its pickup is arranged: three events
\* now, and the same three with the arranged event after them later.
C30_Witness ==
    /\ Tracked
    /\ call.donation[1].status = "urgent"
    /\ Len(call.timeline) = 3
    /\ \E t \in LaterClocks :
          LET later == generateStatusTimeline(call.donation[1], t)
          IN  /\ Len(later) = 4
              /\ SubSeq(later, 1, 3) = call.timeline
              /\ later[4].status = "arranged"

====
